---- MODULE Spec2Model ----
(***************************************************************************)
(* Model of src/extra_page.py: extract_pages(pdf_path, page_ranges,        *)
(* offset) and main().                                                     *)
(*                                                                         *)
(* Strings are sequences of one-character strings, so that endswith, +,    *)
(* os.path.dirname and os.path.join are computed as the code computes      *)
(* them.  The filesystem is a function from resolved paths to file         *)
(* contents; a path outside its domain does not exist.  A PDF's content is *)
(* the sequence of its pages, a page being identified by a number.         *)
(***************************************************************************)
EXTENDS Integers, Sequences, FiniteSets, TLC

VARIABLES
    pdf_path,     \* argument: path of the source PDF
    page_ranges,  \* argument: list of <<start, end, base_filename>>
    offset,       \* argument: page offset
    fs,           \* the filesystem: resolved path -> file content
    unwritable,   \* resolved paths on which open(..., "w"/"wb") raises
    pc,           \* position of the program
    reader,       \* reader.pages, the pages PdfReader holds in memory
    idx,          \* 1-based position of the for loop in page_ranges
    err,          \* the exception extract_pages raised, "none" if none
    log,          \* the lines printed, as <<descriptor index, event>>
    exit_status,  \* exit status of the process, -1 while it runs
    run,          \* 1 in the first call of extract_pages, 2 in a repeated call
    source0,      \* content of the source file when the current call started
    first         \* outcome of the first call, recorded when a second starts

vars == <<pdf_path, page_ranges, offset, fs, unwritable, pc, reader, idx, err,
          log, exit_status, run, source0, first>>

args == <<pdf_path, page_ranges, offset, unwritable>>

----------------------------------------------------------------------------
(* Bounds of the model *)

MaxPage == 2

MaxDesc == 2

Offsets == {-1, 0, 1}

(* Strings *)

PDF_EXT == <<".", "p", "d", "f">>

MD_EXT == <<".", "m", "d">>

SEP == "/"

SourceBase == <<"S">> \o PDF_EXT

SourcePaths == {SourceBase, <<"d", SEP>> \o SourceBase}

Names == {<<"A">>, <<"A">> \o PDF_EXT, SourceBase}

Descriptors == {<<s, e, n>> : s \in 1..MaxPage, e \in 1..MaxPage, n \in Names}

DescriptorLists == UNION {[1..n -> Descriptors] : n \in 0..MaxDesc}

(* File contents *)

Absent == [kind |-> "absent", data |-> <<>>]

Pdf(pages) == [kind |-> "pdf", data |-> pages]

Corrupt == [kind |-> "corrupt", data |-> <<>>]

EmptyText == [kind |-> "text", data |-> <<>>]

SourcePdf == Pdf([i \in 1..MaxPage |-> i])

NoOutcome == [fs |-> <<>>, source |-> Absent, err |-> "none", log |-> <<>>]

----------------------------------------------------------------------------
(* String and path functions *)

\* str.endswith
EndsWith(s, suffix) ==
    /\ Len(s) >= Len(suffix)
    /\ SubSeq(s, Len(s) - Len(suffix) + 1, Len(s)) = suffix

\* str.rfind(SEP) + 1: the position of the last separator, 0 if none
LastSep(p) ==
    IF \E i \in 1..Len(p) : p[i] = SEP
    THEN CHOOSE i \in 1..Len(p) :
             p[i] = SEP /\ \A j \in (i+1)..Len(p) : p[j] # SEP
    ELSE 0

\* str.rstrip(SEP)
RECURSIVE RStripSep(_)
RStripSep(s) ==
    IF Len(s) > 0 /\ s[Len(s)] = SEP
    THEN RStripSep(SubSeq(s, 1, Len(s) - 1))
    ELSE s

\* os.path.dirname
dirname(p) ==
    LET head == SubSeq(p, 1, LastSep(p))
    IN  IF head # <<>> /\ \E i \in 1..Len(head) : head[i] # SEP
        THEN RStripSep(head)
        ELSE head

\* os.path.join
join(a, b) ==
    IF Len(b) > 0 /\ b[1] = SEP THEN b
    ELSE IF a = <<>> \/ a[Len(a)] = SEP THEN a \o b
    ELSE a \o <<SEP>> \o b

\* pdf_dir of extract_pages
pdf_dir(path) == IF dirname(path) = <<>> THEN <<".">> ELSE dirname(path)

\* the file a path names: a leading "./" names the working directory
RECURSIVE Resolve(_)
Resolve(p) ==
    IF Len(p) >= 2 /\ p[1] = "." /\ p[2] = SEP
    THEN Resolve(SubSeq(p, 3, Len(p)))
    ELSE p

FileAt(files, p) == IF Resolve(p) \in DOMAIN files THEN files[Resolve(p)] ELSE Absent

\* the existence check left out
exists_Always(files, p) == TRUE

\* os.path.exists
exists(files, p) == Resolve(p) \in DOMAIN files

\* the file opened for appending instead
WriteFile_Append(files, p, content) ==
    [q \in DOMAIN files \cup {Resolve(p)} |->
        IF q = Resolve(p)
        THEN [kind |-> content.kind, data |-> FileAt(files, p).data \o content.data]
        ELSE files[q]]

\* an existing file left as it is
WriteFile_KeepExisting(files, p, content) ==
    [q \in DOMAIN files \cup {Resolve(p)} |->
        IF q \in DOMAIN files THEN files[q] ELSE content]

\* open(p, "w"/"wb") followed by a write of content: truncates or creates
WriteFile(files, p, content) ==
    [q \in DOMAIN files \cup {Resolve(p)} |->
        IF q = Resolve(p) THEN content ELSE files[q]]

----------------------------------------------------------------------------
(* The body of the for loop *)

actual_start(d) == d[1] + offset

actual_end(d) == d[2] + offset

\* the check of an inverted range left out
ValidRange_NoInvertedCheck(d, total_pages) ==
    /\ ~(actual_start(d) < 1 \/ actual_end(d) < 1)
    /\ ~(actual_start(d) > total_pages \/ actual_end(d) > total_pages)

\* the three range checks, none of which printed a warning
ValidRange(d, total_pages) ==
    /\ ~(actual_start(d) < 1 \/ actual_end(d) < 1)
    /\ ~(actual_start(d) > total_pages \/ actual_end(d) > total_pages)
    /\ ~(actual_start(d) > actual_end(d))

\* the warning printed for a range that fails a check
Warning(d, total_pages) ==
    IF actual_start(d) < 1 \/ actual_end(d) < 1 THEN "warn_below_1"
    ELSE IF actual_start(d) > total_pages \/ actual_end(d) > total_pages
    THEN "warn_above_total"
    ELSE "warn_inverted"

\* range(a, b): the 1-based start taken for a 0-based index
WriterPages_OffByOne(pages, a, b) == [i \in 1..(IF b > a THEN b - a ELSE 0) |-> pages[a + i]]

\* the pages added to the writer: reader.pages[i] for i in range(a - 1, b)
WriterPages(pages, a, b) == [i \in 1..(IF b >= a THEN b - a + 1 ELSE 0) |-> pages[a + i - 1]]

\* the suffix appended without looking at the name
pdf_output_filename_AlwaysAppends(base_filename) == base_filename \o PDF_EXT

pdf_output_filename(base_filename) ==
    IF ~EndsWith(base_filename, PDF_EXT)
    THEN base_filename \o PDF_EXT
    ELSE base_filename

output_path(d) == join(pdf_dir(pdf_path), pdf_output_filename(d[3]))

md_output_filename(base_filename) == base_filename \o MD_EXT

md_output_path(d) == join(pdf_dir(pdf_path), md_output_filename(d[3]))

cur == page_ranges[idx]

InLoop == pc = "loop" /\ idx <= Len(page_ranges)

----------------------------------------------------------------------------
(* Initial state: the arguments and the filesystem at invocation *)

DocOf(path, name) == Resolve(join(pdf_dir(path), pdf_output_filename(name)))

MdOf(path, name) == Resolve(join(pdf_dir(path), md_output_filename(name)))

\* the environment has at most one fault: the source is missing or corrupt,
\* or one output path cannot be opened for writing
Init ==
    /\ pdf_path \in SourcePaths
    /\ page_ranges \in DescriptorLists
    /\ offset \in Offsets
    /\ source0 \in {Absent, Corrupt, SourcePdf}
    /\ fs = IF source0 = Absent THEN <<>> ELSE WriteFile(<<>>, pdf_path, source0)
    /\ unwritable \in {{}} \cup
          IF source0 = SourcePdf
          THEN {{DocOf(pdf_path, <<"A">>)}, {MdOf(pdf_path, <<"A">>)}}
          ELSE {}
    /\ pc = "start"
    /\ reader = <<>>
    /\ idx = 0
    /\ err = "none"
    /\ log = <<>>
    /\ exit_status = -1
    /\ run = 1
    /\ first = NoOutcome

----------------------------------------------------------------------------
(* extract_pages *)

\* if not os.path.exists(pdf_path): raise FileNotFoundError
SourceNotFound ==
    /\ pc = "start"
    /\ ~exists(fs, pdf_path)
    /\ pc' = "raised"
    /\ err' = "FileNotFoundError"
    /\ UNCHANGED <<args, fs, reader, idx, log, exit_status, run, source0, first>>

SourceFound ==
    /\ pc = "start"
    /\ exists(fs, pdf_path)
    /\ pc' = "parse"
    /\ UNCHANGED <<args, fs, reader, idx, err, log, exit_status, run, source0, first>>

\* reader = PdfReader(pdf_path); total_pages = len(reader.pages)
ParseSource ==
    /\ pc = "parse"
    /\ FileAt(fs, pdf_path).kind = "pdf"
    /\ reader' = FileAt(fs, pdf_path).data
    /\ idx' = 1
    /\ pc' = "loop"
    /\ log' = Append(log, <<0, "total_pages">>)
    /\ UNCHANGED <<args, fs, err, exit_status, run, source0, first>>

\* PdfReader raises; the outer handler prints and re-raises
ParseFails ==
    /\ pc = "parse"
    /\ FileAt(fs, pdf_path).kind # "pdf"
    /\ pc' = "raised"
    /\ err' = "SourceReadError"
    /\ log' = Append(log, <<0, "error">>)
    /\ UNCHANGED <<args, fs, reader, idx, exit_status, run, source0, first>>

\* a range check fails: print the warning and continue
SkipDescriptor ==
    /\ InLoop
    /\ ~ValidRange(cur, Len(reader))
    /\ log' = Append(log, <<idx, Warning(cur, Len(reader))>>)
    /\ idx' = idx + 1
    /\ UNCHANGED <<args, fs, pc, reader, err, exit_status, run, source0, first>>

\* writer.add_page for each page of the range, then write to output_path
WriteDocument ==
    /\ InLoop
    /\ ValidRange(cur, Len(reader))
    /\ Resolve(output_path(cur)) \notin unwritable
    /\ fs' = WriteFile(fs, output_path(cur),
                       Pdf(WriterPages(reader, actual_start(cur), actual_end(cur))))
    /\ log' = Append(log, <<idx, "saved">>)
    /\ pc' = "md"
    /\ UNCHANGED <<args, reader, idx, err, exit_status, run, source0, first>>

\* open(output_path, "wb") raises; the outer handler prints and re-raises
WriteDocumentFails ==
    /\ InLoop
    /\ ValidRange(cur, Len(reader))
    /\ Resolve(output_path(cur)) \in unwritable
    /\ pc' = "raised"
    /\ err' = "OSError"
    /\ log' = Append(log, <<idx, "error">>)
    /\ UNCHANGED <<args, fs, reader, idx, exit_status, run, source0, first>>

\* open(md_output_path, "w") creates the empty Markdown file
WriteCompanion ==
    /\ pc = "md"
    /\ Resolve(md_output_path(cur)) \notin unwritable
    /\ fs' = WriteFile(fs, md_output_path(cur), EmptyText)
    /\ log' = Append(log, <<idx, "md_created">>)
    /\ idx' = idx + 1
    /\ pc' = "loop"
    /\ UNCHANGED <<args, reader, err, exit_status, run, source0, first>>

\* the failure of the companion file left to the outer handler
WriteCompanionFails_Raises ==
    /\ pc = "md"
    /\ Resolve(md_output_path(page_ranges[idx])) \in unwritable
    /\ pc' = "raised"
    /\ err' = "OSError"
    /\ log' = Append(log, <<idx, "error">>)
    /\ UNCHANGED <<args, fs, reader, idx, exit_status, run, source0, first>>

\* open(md_output_path, "w") raises; the inner handler prints and goes on
WriteCompanionFails ==
    /\ pc = "md"
    /\ Resolve(md_output_path(cur)) \in unwritable
    /\ log' = Append(log, <<idx, "md_error">>)
    /\ idx' = idx + 1
    /\ pc' = "loop"
    /\ UNCHANGED <<args, fs, reader, err, exit_status, run, source0, first>>

\* the for loop is exhausted: extract_pages returns
Return ==
    /\ pc = "loop"
    /\ idx > Len(page_ranges)
    /\ pc' = "done"
    /\ UNCHANGED <<args, fs, reader, idx, err, log, exit_status, run, source0, first>>

----------------------------------------------------------------------------
(* main *)

\* extract_pages returned: print the completion line, fall off the end
MainCompleted ==
    /\ pc = "done"
    /\ pc' = "exited"
    /\ exit_status' = 0
    /\ log' = Append(log, <<0, "completed">>)
    /\ UNCHANGED <<args, fs, reader, idx, err, run, source0, first>>

\* except FileNotFoundError / except Exception: print, fall off the end
MainHandlesError ==
    /\ pc = "raised"
    /\ pc' = "exited"
    /\ exit_status' = 0
    /\ log' = Append(log, <<0, "main_error">>)
    /\ UNCHANGED <<args, fs, reader, idx, err, run, source0, first>>

\* extract_pages is called again with the same arguments
CallAgain ==
    /\ run = 1
    /\ pc \in {"done", "raised"}
    /\ first' = [fs |-> fs, source |-> source0, err |-> err, log |-> log]
    /\ source0' = FileAt(fs, pdf_path)
    /\ run' = 2
    /\ pc' = "start"
    /\ reader' = <<>>
    /\ idx' = 0
    /\ err' = "none"
    /\ log' = <<>>
    /\ UNCHANGED <<args, fs, exit_status>>

Next ==
    \/ SourceNotFound
    \/ SourceFound
    \/ ParseSource
    \/ ParseFails
    \/ SkipDescriptor
    \/ WriteDocument
    \/ WriteDocumentFails
    \/ WriteCompanion
    \/ WriteCompanionFails
    \/ Return
    \/ MainCompleted
    \/ MainHandlesError

Spec == Init /\ [][Next]_vars

NextTwice == Next \/ CallAgain

SpecTwice == Init /\ [][NextTwice]_vars

----------------------------------------------------------------------------
(* Vocabulary of the properties, stated from the arguments and the source  *)
(* file as it was when the call started                                    *)

Logged(k, event) == \E i \in 1..Len(log) : log[i] = <<k, event>>

Warnings == {"warn_below_1", "warn_above_total", "warn_inverted"}

SourceErrors == {"FileNotFoundError", "SourceReadError"}

TotalPages == Len(source0.data)

\* 1 <= start+offset <= end+offset <= total_pages
EffectiveRangeValid(d) ==
    /\ 1 <= d[1] + offset
    /\ d[1] + offset <= d[2] + offset
    /\ d[2] + offset <= TotalPages

\* one of the five bounds violations
EffectiveRangeViolates(d) ==
    \/ d[1] + offset < 1
    \/ d[2] + offset < 1
    \/ d[1] + offset > TotalPages
    \/ d[2] + offset > TotalPages
    \/ d[1] + offset > d[2] + offset

\* file holds exactly the source pages start+offset..end+offset, in order
HoldsRange(file, d) ==
    /\ file.kind = "pdf"
    /\ Len(file.data) = d[2] - d[1] + 1
    /\ \A i \in 1..Len(file.data) : file.data[i] = source0.data[d[1] + offset + i - 1]

\* the directory part of the source path, with its separator
SourceDir == SubSeq(pdf_path, 1, Len(pdf_path) - Len(SourceBase))

DocumentName(name) == IF EndsWith(name, PDF_EXT) THEN name ELSE name \o PDF_EXT

CompanionName(name) == name \o MD_EXT

\* g is f with the file at path p created or replaced, nothing else touched
OnlyWrites(f, g, p) ==
    /\ DOMAIN g = DOMAIN f \cup {p}
    /\ \A q \in DOMAIN f \ {p} : g[q] = f[q]

----------------------------------------------------------------------------
\* C1: for a descriptor whose effective range is valid, extract_pages writes
\* an output document of end - start + 1 pages whose i-th page is the source
\* page at position start+offset+i-1 (the document's path being writable).
C1_ExtractsExactlyTheRange ==
    [][(InLoop /\ EffectiveRangeValid(cur) /\ Resolve(output_path(cur)) \notin unwritable)
        => (/\ pc' = "md"
            /\ HoldsRange(FileAt(fs', output_path(cur)), cur)
            /\ log' = Append(log, <<idx, "saved">>))]_vars

C1_Witness ==
    /\ pc = "md"
    /\ offset # 0
    /\ cur[3] = <<"A">>
    /\ HoldsRange(FileAt(fs, output_path(cur)), cur)

\* C2: a descriptor whose effective range violates a bound creates no file,
\* raises nothing, and the loop goes on to the next descriptor.
C2_InvalidRangeSkipped ==
    [][(InLoop /\ EffectiveRangeViolates(cur))
        => (/\ fs' = fs
            /\ err' = "none"
            /\ pc' = "loop"
            /\ idx' = idx + 1
            /\ \E w \in Warnings : log' = Append(log, <<idx, w>>))]_vars

C2_Witness ==
    \E k \in 1..Len(page_ranges) :
        /\ EffectiveRangeViolates(page_ranges[k])
        /\ \E w \in Warnings : Logged(k, w)
        /\ Logged(k + 1, "saved")

\* C3: descriptors are processed independently: once the source is found and
\* parsed, no skip and no failure while processing a descriptor (a bounds
\* violation, a failure writing the document or the companion file) aborts
\* the call or keeps a later descriptor from being processed; the only
\* errors raised are the source being missing or unparsable.
C3_OnlySourceErrorsAbort ==
    /\ err # "none" => (err \in SourceErrors /\ idx = 0)
    /\ (pc = "exited" /\ err \notin SourceErrors) =>
          \A k \in 1..Len(page_ranges) :
              Logged(k, "saved") \/ \E w \in Warnings : Logged(k, w)

\* C4: when the source does not exist at invocation, FileNotFoundError is
\* raised before any parsing and before any descriptor is examined, and no
\* file is created.
C4_MissingSourceRaisesFirst ==
    (source0 = Absent /\ pc # "start")
        => (/\ pc \in {"raised", "exited"}
            /\ err = "FileNotFoundError"
            /\ reader = <<>>
            /\ idx = 0
            /\ DOMAIN fs = {}
            /\ \A i \in 1..Len(log) : log[i] = <<0, "main_error">>)

C4_Witness ==
    /\ source0 = Absent
    /\ pc = "raised"
    /\ Len(page_ranges) > 0

\* C5: a failure writing the companion file is logged and not raised; the
\* document already written stays, and the loop goes on to the next
\* descriptor exactly as after a successful write.
C5_CompanionFailureNotFatal ==
    [][(pc = "md" /\ Resolve(md_output_path(cur)) \in unwritable)
        => (/\ err' = "none"
            /\ pc' = "loop"
            /\ idx' = idx + 1
            /\ fs' = fs
            /\ HoldsRange(FileAt(fs', output_path(cur)), cur)
            /\ log' = Append(log, <<idx, "md_error">>))]_vars

C5_Witness ==
    /\ pc = "done"
    /\ Logged(1, "md_error")
    /\ Logged(2, "saved")
    /\ Logged(2, "md_created")

\* C6: the document is named outputName if that ends with ".pdf" and
\* outputName + ".pdf" otherwise, the companion outputName + ".md"; both are
\* written in the directory of the source, and nothing else is written.
C6_FilenameDerivation ==
    [][/\ (InLoop /\ pc' = "md")
          => (/\ OnlyWrites(fs, fs', SourceDir \o DocumentName(cur[3]))
              /\ fs'[SourceDir \o DocumentName(cur[3])].kind = "pdf")
       /\ (pc = "md" /\ log' = Append(log, <<idx, "md_created">>))
          => (/\ OnlyWrites(fs, fs', SourceDir \o CompanionName(cur[3]))
              /\ fs'[SourceDir \o CompanionName(cur[3])] = EmptyText)]_vars

C6_Witness ==
    /\ pc = "loop"
    /\ idx = 2
    /\ page_ranges[1][3] = <<"A">> \o PDF_EXT
    /\ pdf_path # SourceBase
    /\ DOMAIN fs = {pdf_path,
                    <<"d", SEP, "A">> \o PDF_EXT,
                    <<"d", SEP, "A">> \o PDF_EXT \o MD_EXT}

\* C7: a second call with the same arguments, on a source the first call left
\* unchanged, leaves the filesystem as the first call left it: the same
\* files, the same documents, every companion file still empty; and it ends
\* as the first call ended.
C7_Idempotent ==
    (run = 2 /\ pc \in {"done", "raised"} /\ source0 = first.source)
        => (/\ fs = first.fs
            /\ err = first.err
            /\ log = first.log
            /\ \A p \in DOMAIN fs : fs[p].kind = "text" => fs[p].data = <<>>)

C7_Witness ==
    /\ run = 2
    /\ pc = "done"
    /\ source0 = first.source
    /\ Len(page_ranges) = 2
    /\ Logged(1, "saved")
    /\ Logged(2, "saved")
    /\ page_ranges[1][3] = page_ranges[2][3]
    /\ page_ranges[1][1] # page_ranges[2][1]

\* C8: the process exits with a non-zero status after a fatal source error
\* and with status 0 after a run with no fatal error.
C8_ExitStatus ==
    pc = "exited" =>
        /\ err \in SourceErrors => exit_status # 0
        /\ err = "none" => exit_status = 0

\* C9: the source file is never written: its content stays what it was when
\* the call started.
C9_SourceReadOnly ==
    FileAt(fs, pdf_path) = source0

\* C10: descriptors are processed in list order, one at a time, the document
\* of a descriptor before its companion; when several valid descriptors
\* derive the same document filename, the file left after the call holds the
\* pages of the last of them, and nothing is raised.
C10_ListOrderLastWriterWins ==
    /\ \A i, j \in 1..Len(log) :
          (i < j /\ log[i][1] >= 1 /\ log[j][1] >= 1)
              => \/ log[i][1] < log[j][1]
                 \/ /\ log[i][1] = log[j][1]
                    /\ log[i][2] = "saved"
                    /\ log[j][2] \in {"md_created", "md_error"}
    /\ pc = "done" =>
          /\ err = "none"
          /\ \A k \in 1..Len(page_ranges) :
                (/\ EffectiveRangeValid(page_ranges[k])
                 /\ \A j \in (k + 1)..Len(page_ranges) :
                       EffectiveRangeValid(page_ranges[j])
                           => DocumentName(page_ranges[j][3]) # DocumentName(page_ranges[k][3]))
                    => HoldsRange(FileAt(fs, SourceDir \o DocumentName(page_ranges[k][3])),
                                  page_ranges[k])

C10_Witness ==
    /\ pc = "done"
    /\ Len(page_ranges) = 2
    /\ EffectiveRangeValid(page_ranges[1])
    /\ EffectiveRangeValid(page_ranges[2])
    /\ page_ranges[1][3] = <<"A">>
    /\ page_ranges[2][3] = <<"A">> \o PDF_EXT
    /\ page_ranges[1][2] - page_ranges[1][1] # page_ranges[2][2] - page_ranges[2][1]

====
